---------------------------- MODULE Spec2Model ----------------------------
(***************************************************************************)
(* A model of the MACSima reader, spatialdata_io/readers/macsima.py.       *)
(*                                                                         *)
(* One call of macsima() is a pipeline: discover the files, extract the    *)
(* metadata of each image, check the ROI ids, sort by cycle, filter by the *)
(* channel allow-list, check the physical pixel sizes and the dimension    *)
(* order, stack the planes and build the output container.  Each step of   *)
(* the pipeline is one action; a raised exception ends the call in         *)
(* pc = "error" with the kind of the exception in err.                     *)
(*                                                                         *)
(* Python strings are sequences of one-character strings, so that joining, *)
(* matching the leading digits and replacing characters are computed as    *)
(* the code computes them.  Floats are exact fractions <<num, den>> in     *)
(* lowest terms.                                                           *)
(***************************************************************************)
EXTENDS Integers, Sequences, FiniteSets, TLC

\* ------------------------------------------------------------------------
\* Bounds

\* The largest number of files that glob discovers in the calls that range
\* over cycles, channels and allow-lists.
MaxImgs == 3

\* The largest number of files that glob discovers in the other calls.
MaxFiles == 2

\* ------------------------------------------------------------------------
\* Python values

\* Python's None where a string is expected.
None == <<"None">>

\* getattr(img, CHANNEL_NAMES, None) when the attribute is missing.
NoChannelNames == << <<"NoAttr">> >>

\* bool(s) of an optional string: None and "" are falsy.
Truthy(s) == s # None /\ s # <<>>

\* Some strings of the inputs.
Us == "_"
DAPI == <<"D", "A", "P", "I">>
CD3 == <<"C", "D", "3">>
FITC == <<"F", "I", "T", "C">>
ScanS == <<"S">>
ReagentA == <<"a", "b">>
ReagentB == <<"R", "2">>
RoiR1 == <<"R", "1">>
RoiR2 == <<"R", "-", "2">>
DescExp == <<"E", "x", "p", " ", "#", "1">>
DescRoi == <<"E", "x", "p", " ", "#", "1", " ", "(", "R", "O", "I", "-", "2", ")">>
DescPlain == <<"r", "u", "n", "_", "7">>
Global == <<"g", "l", "o", "b", "a", "l">>

LowerChars == {"a", "b", "c", "d", "e", "f", "g", "h", "i", "j", "k", "l", "m",
               "n", "o", "p", "q", "r", "s", "t", "u", "v", "w", "x", "y", "z"}
UpperChars == {"A", "B", "C", "D", "E", "F", "G", "H", "I", "J", "K", "L", "M",
               "N", "O", "P", "Q", "R", "S", "T", "U", "V", "W", "X", "Y", "Z"}
DigitChars == <<"0", "1", "2", "3", "4", "5", "6", "7", "8", "9">>
Digits == {DigitChars[i] : i \in 1..Len(DigitChars)}

\* int(c) of one decimal digit.
DigitValue(c) == (CHOOSE i \in 1..Len(DigitChars) : DigitChars[i] = c) - 1

\* int(s) of a run of decimal digits.
RECURSIVE ParseInt(_)
ParseInt(s) ==
    IF s = <<>> THEN 0
    ELSE ParseInt(SubSeq(s, 1, Len(s) - 1)) * 10 + DigitValue(s[Len(s)])

\* re.compile(r'^\d+').match(s): the leading run of digits, <<>> for no match.
RECURSIVE NumberPattern(_)
NumberPattern(s) ==
    IF s = <<>> \/ s[1] \notin Digits THEN <<>>
    ELSE <<s[1]>> \o NumberPattern(Tail(s))

\* "_".join(parts)
RECURSIVE Join(_)
Join(parts) ==
    IF parts = <<>> THEN <<>>
    ELSE IF Len(parts) = 1 THEN parts[1]
    ELSE parts[1] \o <<Us>> \o Join(Tail(parts))

\* [part for part in parts if part]
RECURSIVE NonEmptyParts(_)
NonEmptyParts(parts) ==
    IF parts = <<>> THEN <<>>
    ELSE (IF Truthy(parts[1]) THEN <<parts[1]>> ELSE <<>>)
         \o NonEmptyParts(Tail(parts))

\* ------------------------------------------------------------------------
\* _clean_string

\* A faulty variant: the characters outside the set are dropped.
CleanStringCollapsing(input_string) ==
    SelectSeq(input_string,
              LAMBDA c : c \in LowerChars \cup UpperChars \cup Digits \cup {Us})

\* re.sub(r'[^a-zA-Z0-9_]', '_', input_string)
_clean_string(input_string) ==
    [k \in 1..Len(input_string) |->
        IF input_string[k] \in LowerChars \cup UpperChars \cup Digits \cup {Us}
        THEN input_string[k] ELSE Us]

\* ------------------------------------------------------------------------
\* _parse_physical_size

NANOMETER == "nm"
MICROMETER == "um"
MILLIMETER == "mm"

\* The divisor of the nanometer branch.
NanometerDivisor == 1000

RECURSIVE Gcd(_, _)
Gcd(a, b) == IF b = 0 THEN a ELSE Gcd(b, a % b)

\* The float n / d, as a fraction in lowest terms.
Float(n, d) == <<n \div Gcd(n, d), d \div Gcd(n, d)>>

\* No float yet.
NoFloat == <<>>

\* A faulty variant: nanometers are passed through like micrometers.
ParsePhysicalSizeNoDivide(pixels) ==
    IF pixels.physical_size_x_unit # pixels.physical_size_y_unit
    THEN [err |-> "UnsupportedGeometry", val |-> NoFloat]
    ELSE IF pixels.physical_size_x # pixels.physical_size_y
    THEN [err |-> "UnsupportedGeometry", val |-> NoFloat]
    ELSE IF pixels.physical_size_x_unit \in {NANOMETER, MICROMETER}
    THEN [err |-> "ok", val |-> Float(pixels.physical_size_x, 1)]
    ELSE [err |-> "UnrecognizedUnit", val |-> NoFloat]

\* _parse_physical_size(pixels): the size in micrometers, or the error raised.
_parse_physical_size(pixels) ==
    IF pixels.physical_size_x_unit # pixels.physical_size_y_unit
    THEN [err |-> "UnsupportedGeometry", val |-> NoFloat]
    ELSE IF pixels.physical_size_x # pixels.physical_size_y
    THEN [err |-> "UnsupportedGeometry", val |-> NoFloat]
    ELSE IF pixels.physical_size_x_unit = NANOMETER
    THEN [err |-> "ok", val |-> Float(pixels.physical_size_x, NanometerDivisor)]
    ELSE IF pixels.physical_size_x_unit = MICROMETER
    THEN [err |-> "ok", val |-> Float(pixels.physical_size_x, 1)]
    ELSE [err |-> "UnrecognizedUnit", val |-> NoFloat]

\* ------------------------------------------------------------------------
\* _get_structured_annotations, _get_metadata

\* [item.value[key] for item in structured_annotations
\*  if item.value[key] is not None]
RECURSIVE AnnotationValues(_, _)
AnnotationValues(structured_annotations, metadata_key) ==
    IF structured_annotations = <<>> THEN <<>>
    ELSE (IF structured_annotations[1][metadata_key] # None
          THEN <<structured_annotations[1][metadata_key]>> ELSE <<>>)
         \o AnnotationValues(Tail(structured_annotations), metadata_key)

\* _get_structured_annotations(img, metadata_key): the one value, None, or
\* the error raised.
_get_structured_annotations(img, metadata_key) ==
    LET value == AnnotationValues(img.structured_annotations, metadata_key)
    IN  IF value = <<>> THEN [err |-> "ok", val |-> None]
        ELSE IF \E k \in 1..Len(value) : value[k] # value[1]
        THEN [err |-> "AnnotationsNotEqual", val |-> None]
        ELSE [err |-> "ok", val |-> value[1]]

\* The reagent part of _get_metadata: the name of the one reagent of the one
\* screen, None without one.
get_reagents(img) ==
    IF ~img.has_screens THEN [err |-> "ok", val |-> None]
    ELSE IF Len(img.screens) # 1 THEN [err |-> "ScreensCount", val |-> None]
    ELSE IF img.screens[1] = <<>> THEN [err |-> "ok", val |-> None]
    ELSE IF Len(img.screens[1]) # 1 THEN [err |-> "ReagentsCount", val |-> None]
    ELSE [err |-> "ok", val |-> img.screens[1][1]]

\* The ROI part of _get_metadata: the current key or else the deprecated key.
get_roi_id(img) ==
    LET cur == _get_structured_annotations(img, "roi_id")
        dep == _get_structured_annotations(img, "roi_id_deprecated")
    IN  IF cur.err # "ok" THEN cur
        ELSE IF Truthy(cur.val) THEN cur
        ELSE dep

NoMetadata == <<None, None, None, None, None>>

\* _get_metadata(img): [cycle, scantype, channel_name, roi_id, reagents], or
\* the error raised.
_get_metadata(img) ==
    LET cycle == _get_structured_annotations(img, "cycle")
        scantype == _get_structured_annotations(img, "scantype")
        reagents == get_reagents(img)
        roi_id == get_roi_id(img)
        Fail(e) == [err |-> e, val |-> NoMetadata]
    IN  IF cycle.err # "ok" THEN Fail(cycle.err)
        ELSE IF cycle.val = None THEN Fail("CycleMissing")
        ELSE IF scantype.err # "ok" THEN Fail(scantype.err)
        ELSE IF img.channel_names = NoChannelNames THEN Fail("ChannelNamesMissing")
        ELSE IF Len(img.channel_names) # 1 THEN Fail("ChannelNamesAmbiguous")
        ELSE IF img.channel_names[1] = <<>> THEN Fail("ChannelNameEmpty")
        ELSE IF reagents.err # "ok" THEN Fail(reagents.err)
        ELSE IF roi_id.err # "ok" THEN Fail(roi_id.err)
        ELSE [err |-> "ok",
              val |-> <<cycle.val, scantype.val, img.channel_names[1],
                        roi_id.val, reagents.val>>]

\* ------------------------------------------------------------------------
\* The pipeline of macsima()

\* c_subset = None
NoSubset == << <<"None">> >>

\* The allow-list as a set of channel names.
Members(c_subset) == {c_subset[k] : k \in 1..Len(c_subset)}

\* A faulty variant: "if c_subset is not None".
SubsetGivenNotNone(c) == c # NoSubset

\* if c_subset: an allow-list is applied when it is neither None nor empty.
SubsetGiven(c) == c # NoSubset /\ c # <<>>

\* A faulty variant: the ROI id (the fourth item) is left out of the name.
DerivedNameWithoutRoi(name_parts) ==
    Join(NonEmptyParts(<<name_parts[1], name_parts[2], name_parts[3], name_parts[5]>>))

\* The derived name of one image: the non-empty items of its metadata, joined.
DerivedName(name_parts) == Join(NonEmptyParts(name_parts))

\* The sort key of a derived name; -1 when the name has no leading digit
\* (number_pattern.match is None and .group() raises).
CycleKey(name) ==
    IF NumberPattern(name) = <<>> THEN -1 ELSE ParseInt(NumberPattern(name))

\* A faulty variant: the discovery order is kept.
SortedUnsorted(combined) == combined

\* sorted(combined, key=...): a stable sort by the cycle key of the name.
Sorted(combined) ==
    LET n == Len(combined)
        key == [i \in 1..n |-> CycleKey(combined[i][1])]
        rank == [i \in 1..n |-> Cardinality({j \in 1..n :
                    key[j] < key[i] \/ (key[j] = key[i] /\ j <= i)})]
    IN  [r \in 1..n |-> combined[CHOOSE i \in 1..n : rank[i] = r]]

\* The triples whose channel name is in the allow-list, in order.
Subsetted(combined, c) ==
    SelectSeq(combined, LAMBDA t : t[2] \in Members(c))

\* ndarray.squeeze(): the axes of length one are dropped.
Squeeze(shape) == SelectSeq(shape, LAMBDA n : n # 1)

\* A faulty variant: c_coords=c_coords.
ImageElementChannelNames(stack, derived_names, channel_names, cs, t) ==
    [data |-> stack, dims |-> <<"c", "y", "x">>, c_coords |-> channel_names,
     coordinate_system |-> cs, transformation |-> t]

\* Image2DModel.parse(array, dims, c_coords=names, transformations={cs: t})
ImageElement(stack, derived_names, channel_names, cs, t) ==
    [data |-> stack, dims |-> <<"c", "y", "x">>, c_coords |-> derived_names,
     coordinate_system |-> cs, transformation |-> t]

\* Scale([p, p], axes=("x", "y")) if transformations else Identity()
Transformation(flag, p) ==
    IF flag THEN [type |-> "Scale", scale |-> <<p, p>>]
    ELSE [type |-> "Identity", scale |-> <<>>]

NoArray == [shape |-> <<>>, planes |-> <<>>]
NoElement == ImageElement(NoArray, <<>>, <<>>, None, Transformation(FALSE, NoFloat))
NoSData == [image_name |-> None, image |-> NoElement]

VARIABLES
    path_list,            \* the discovered files, in the order glob gives them
    c_subset,             \* the channel allow-list
    transformations,      \* whether a scale to microns is attached
    pc,                   \* the next step of the call
    err,                  \* the exception that ended the call
    imgs,                 \* the images, as sorted and filtered so far
    image_name,
    metadata,
    c_coords,
    roi,
    to_coordinate_system,
    names,
    subsetted,            \* whether the allow-list filter ran
    pixels_to_microns,
    size_calls,           \* the calls of _parse_physical_size made so far
    array,
    se,
    sdata

vars == <<path_list, c_subset, transformations, pc, err, imgs, image_name,
          metadata, c_coords, roi, to_coordinate_system, names, subsetted,
          pixels_to_microns, size_calls, array, se, sdata>>

inputs == <<path_list, c_subset, transformations>>

\* raise: the call ends with the exception e.
Raise(e) == pc' = "error" /\ err' = e

\* path_list = glob.glob(...); imgs = [BioImage(...)]; image_name = ...
Glob ==
    /\ pc = "glob"
    /\ IF path_list = <<>>
       THEN Raise("NoFiles") /\ UNCHANGED <<imgs, image_name>>
       ELSE /\ imgs' = path_list
            /\ image_name' = path_list[1].description
            /\ pc' = "metadata"
            /\ err' = err
    /\ UNCHANGED <<inputs, metadata, c_coords, roi, to_coordinate_system,
                   names, subsetted, pixels_to_microns, size_calls, array,
                   se, sdata>>

\* metadata = [_get_metadata(_img) for _img in imgs]; c_coords; roi
GetMetadata ==
    /\ pc = "metadata"
    /\ LET md == [k \in 1..Len(imgs) |-> _get_metadata(imgs[k])]
           bad == {k \in 1..Len(imgs) : md[k].err # "ok"}
       IN  IF bad # {}
           THEN /\ Raise(md[CHOOSE k \in bad : \A j \in bad : k <= j].err)
                /\ UNCHANGED <<metadata, c_coords, roi>>
           ELSE /\ metadata' = [k \in 1..Len(imgs) |-> md[k].val]
                /\ c_coords' = [k \in 1..Len(imgs) |-> md[k].val[3]]
                /\ roi' = [k \in 1..Len(imgs) |-> md[k].val[4]]
                /\ pc' = "roi"
                /\ err' = err
    /\ UNCHANGED <<inputs, imgs, image_name, to_coordinate_system, names,
                   subsetted, pixels_to_microns, size_calls, array, se, sdata>>

\* if roi[0] is not None: assert all(x == roi[0] for x in roi) ...
CheckRoi ==
    /\ pc = "roi"
    /\ IF roi[1] # None
       THEN IF \E k \in 1..Len(roi) : roi[k] # roi[1]
            THEN Raise("RoiNotEqual")
                 /\ UNCHANGED <<to_coordinate_system, image_name>>
            ELSE /\ to_coordinate_system' = Global \o <<Us>> \o roi[1]
                 /\ image_name' = image_name \o <<Us>> \o roi[1]
                 /\ pc' = "sort"
                 /\ err' = err
       ELSE /\ to_coordinate_system' = Global
            /\ image_name' = image_name
            /\ pc' = "sort"
            /\ err' = err
    /\ UNCHANGED <<inputs, imgs, metadata, c_coords, roi, names, subsetted,
                   pixels_to_microns, size_calls, array, se, sdata>>

\* names = [...]; combined_sorted = sorted(zip(names, c_coords, imgs), key=...)
SortByCycle ==
    /\ pc = "sort"
    /\ LET derived == [k \in 1..Len(imgs) |-> DerivedName(metadata[k])]
           combined == [k \in 1..Len(imgs) |-> <<derived[k], c_coords[k], imgs[k]>>]
           combined_sorted == Sorted(combined)
       IN  IF \E k \in 1..Len(imgs) : NumberPattern(derived[k]) = <<>>
           THEN Raise("NoCyclePrefix") /\ UNCHANGED <<names, c_coords, imgs>>
           ELSE /\ names' = [k \in 1..Len(imgs) |-> combined_sorted[k][1]]
                /\ c_coords' = [k \in 1..Len(imgs) |-> combined_sorted[k][2]]
                /\ imgs' = [k \in 1..Len(imgs) |-> combined_sorted[k][3]]
                /\ pc' = "subset"
                /\ err' = err
    /\ UNCHANGED <<inputs, image_name, metadata, roi, to_coordinate_system,
                   subsetted, pixels_to_microns, size_calls, array, se, sdata>>

\* if c_subset: names, c_coords, imgs = map(list, zip(*[... if elem2 in c_subset]))
Subset ==
    /\ pc = "subset"
    /\ IF SubsetGiven(c_subset)
       THEN LET combined == [k \in 1..Len(imgs) |-> <<names[k], c_coords[k], imgs[k]>>]
                kept == Subsetted(combined, c_subset)
            IN  /\ subsetted' = TRUE
                /\ IF kept = <<>>
                   THEN \* zip(*[]) yields nothing to unpack into three names
                        Raise("UnpackNotEnoughValues")
                        /\ UNCHANGED <<names, c_coords, imgs>>
                   ELSE /\ names' = [k \in 1..Len(kept) |-> kept[k][1]]
                        /\ c_coords' = [k \in 1..Len(kept) |-> kept[k][2]]
                        /\ imgs' = [k \in 1..Len(kept) |-> kept[k][3]]
                        /\ pc' = "nonempty"
                        /\ err' = err
       ELSE /\ pc' = "nonempty"
            /\ UNCHANGED <<err, names, c_coords, imgs, subsetted>>
    /\ UNCHANGED <<inputs, image_name, metadata, roi, to_coordinate_system,
                   pixels_to_microns, size_calls, array, se, sdata>>

\* if not c_coords: raise ValueError("List of channels ... empty after subsetting")
CheckNonEmpty ==
    /\ pc = "nonempty"
    /\ IF c_coords = <<>>
       THEN Raise("EmptyAfterSubsetting")
       ELSE pc' = "physical_size" /\ err' = err
    /\ UNCHANGED <<inputs, imgs, image_name, metadata, c_coords, roi,
                   to_coordinate_system, names, subsetted, pixels_to_microns,
                   size_calls, array, se, sdata>>

\* One call of _parse_physical_size, as recorded in size_calls.
SizeCall(img) ==
    [file |-> img.file, pixels |-> img.pixels,
     result |-> _parse_physical_size(img.pixels)]

\* pixels_to_microns = _parse_physical_size(imgs[0]...)
\* for _img in imgs: assert pixels_to_microns == _parse_physical_size(_img...)
CheckPhysicalSize ==
    /\ pc = "physical_size"
    /\ LET call == [k \in 1..Len(imgs) |-> SizeCall(imgs[k])]
           first == call[1]
           bad == {k \in 1..Len(imgs) :
                      call[k].result.err # "ok" \/ call[k].result.val # first.result.val}
           stop == CHOOSE k \in bad : \A j \in bad : k <= j
       IN  IF first.result.err # "ok"
           THEN /\ Raise(first.result.err)
                /\ size_calls' = <<first>>
                /\ UNCHANGED pixels_to_microns
           ELSE /\ pixels_to_microns' = first.result.val
                /\ IF bad # {}
                   THEN /\ size_calls' = <<first>> \o SubSeq(call, 1, stop)
                        /\ IF call[stop].result.err # "ok"
                           THEN Raise(call[stop].result.err)
                           ELSE Raise("PhysicalSizeNotEqual")
                   ELSE /\ size_calls' = <<first>> \o call
                        /\ pc' = "stack"
                        /\ err' = err
    /\ UNCHANGED <<inputs, imgs, image_name, metadata, c_coords, roi,
                   to_coordinate_system, names, subsetted, array, se, sdata>>

\* assert imgs[0].dims.order == "TCZYX"
\* array = da.stack([_img.get_image_dask_data().squeeze() for _img in imgs], axis=0)
Stack ==
    /\ pc = "stack"
    /\ IF imgs[1].order # "TCZYX"
       THEN Raise("DimsOrder") /\ UNCHANGED array
       ELSE IF \E k \in 1..Len(imgs) : Squeeze(imgs[k].shape) # Squeeze(imgs[1].shape)
       THEN \* da.stack: all the arrays must have the same shape
            Raise("StackShapes") /\ UNCHANGED array
       ELSE /\ array' = [shape |-> <<Len(imgs)>> \o Squeeze(imgs[1].shape),
                         planes |-> [k \in 1..Len(imgs) |-> imgs[k].file]]
            /\ pc' = "parse"
            /\ err' = err
    /\ UNCHANGED <<inputs, imgs, image_name, metadata, c_coords, roi,
                   to_coordinate_system, names, subsetted, pixels_to_microns,
                   size_calls, se, sdata>>

\* t_pixels_to_microns = ...; se = sd.models.Image2DModel.parse(...)
ParseImage ==
    /\ pc = "parse"
    /\ IF Len(array.shape) # Len(<<"c", "y", "x">>)
       THEN \* the model refuses an array that does not have the three dims
            Raise("ModelDims") /\ UNCHANGED se
       ELSE /\ se' = ImageElement(array, names, c_coords, to_coordinate_system,
                         Transformation(transformations, pixels_to_microns))
            /\ pc' = "sdata"
            /\ err' = err
    /\ UNCHANGED <<inputs, imgs, image_name, metadata, c_coords, roi,
                   to_coordinate_system, names, subsetted, pixels_to_microns,
                   size_calls, array, sdata>>

\* image_name = _clean_string(image_name); sdata = SpatialData(images={...})
BuildSData ==
    /\ pc = "sdata"
    /\ image_name' = _clean_string(image_name)
    /\ sdata' = [image_name |-> _clean_string(image_name), image |-> se]
    /\ pc' = "done"
    /\ UNCHANGED <<inputs, err, imgs, metadata, c_coords, roi,
                   to_coordinate_system, names, subsetted, pixels_to_microns,
                   size_calls, array, se>>

\* ------------------------------------------------------------------------
\* The inputs of a call: what the decoding library gives for each file

\* One structured annotation: the values of the four keys that are read.
Annotation(cycle, scantype, roi_id, roi_id_deprecated) ==
    [cycle |-> cycle, scantype |-> scantype, roi_id |-> roi_id,
     roi_id_deprecated |-> roi_id_deprecated]

Pixels(x, y, x_unit, y_unit) ==
    [physical_size_x |-> x, physical_size_y |-> y,
     physical_size_x_unit |-> x_unit, physical_size_y_unit |-> y_unit]

\* A well-formed single-channel image of cycle 1; screens[k] is the sequence
\* of the reagent names of the k-th screen.
BaseImage ==
    [file |-> 0,
     description |-> DescExp,
     structured_annotations |-> <<Annotation(<<"1">>, ScanS, None, None)>>,
     channel_names |-> <<DAPI>>,
     has_screens |-> TRUE,
     screens |-> << <<ReagentA>> >>,
     pixels |-> Pixels(1000, 1000, NANOMETER, NANOMETER),
     order |-> "TCZYX",
     shape |-> <<1, 1, 1, 2, 2>>]

\* Images that differ in cycle and channel (DAPI is imaged in several cycles,
\* cycle 2 has two channels), with allow-lists.
CycleChannels ==
    {<<<<"1">>, DAPI>>, <<<<"2">>, CD3>>, <<<<"2">>, DAPI>>, <<<<"3">>, CD3>>,
     <<<<"1", "0">>, DAPI>>}
OrderImages ==
    {[BaseImage EXCEPT !.structured_annotations = <<Annotation(cc[1], ScanS, None, None)>>,
                       !.channel_names = <<cc[2]>>] :
        cc \in CycleChannels}
OrderSubsets == {NoSubset, <<>>, <<DAPI>>, <<CD3>>, <<FITC>>, <<CD3, DAPI>>}

\* Images that differ in the ROI id (current and deprecated key) and in the
\* experiment description.
RoiImages ==
    {[BaseImage EXCEPT !.structured_annotations = <<Annotation(<<"1">>, ScanS, r, d)>>,
                       !.description = desc] :
        r \in {None, RoiR1}, d \in {None, <<>>, RoiR2}, desc \in {DescRoi, DescPlain}}

\* Images that differ in the physical pixel size and in the channel.
SizeChoices ==
    {Pixels(1000, 1000, NANOMETER, NANOMETER), Pixels(1, 1, MICROMETER, MICROMETER),
     Pixels(500, 500, NANOMETER, NANOMETER), Pixels(500, 600, NANOMETER, NANOMETER),
     Pixels(1, 1, MILLIMETER, MILLIMETER)}
SizeImages ==
    {[BaseImage EXCEPT !.pixels = px, !.channel_names = <<ch>>] :
        px \in SizeChoices, ch \in {DAPI, CD3}}

\* Every pixel descriptor over a few magnitudes and units, one file a call.
Magnitudes == {1, 500, 600, 1000}
Units == {NANOMETER, MICROMETER, MILLIMETER}
PixelsImages ==
    {[BaseImage EXCEPT !.pixels = Pixels(x, y, xu, yu)] :
        x \in Magnitudes, y \in Magnitudes, xu \in Units, yu \in Units}

\* Images that differ in the dimension order and the shape, and in cycle.
DimsChoices ==
    {<<"TCZYX", <<1, 1, 1, 2, 2>> >>, <<"TCZYXS", <<1, 1, 1, 2, 2, 1>> >>,
     <<"TCZYXS", <<1, 1, 1, 2, 2, 3>> >>, <<"TCZYX", <<1, 1, 2, 2, 2>> >>}
DimsImages ==
    {[BaseImage EXCEPT !.order = dm[1], !.shape = dm[2],
                       !.structured_annotations = <<Annotation(cy, ScanS, None, None)>>] :
        dm \in DimsChoices, cy \in {<<"1">>, <<"2">>}}

\* Images that differ in their structured annotations.
AnnotationChoices ==
    {<<>>,
     <<Annotation(<<"1">>, ScanS, None, None)>>,
     <<Annotation(<<"2">>, None, None, None)>>,
     <<Annotation(None, ScanS, None, None)>>,
     <<Annotation(<<"x">>, ScanS, None, None)>>,
     <<Annotation(<<"1">>, ScanS, None, None), Annotation(<<"1">>, None, RoiR1, None)>>,
     <<Annotation(<<"1">>, ScanS, None, None), Annotation(<<"2">>, ScanS, None, None)>>,
     <<Annotation(<<"1">>, ScanS, RoiR1, None), Annotation(None, None, RoiR2, None)>>}
AnnotationImages ==
    {[BaseImage EXCEPT !.structured_annotations = an] : an \in AnnotationChoices}

\* Images that differ in the channel-names attribute.
ChannelChoices == {NoChannelNames, <<>>, << <<>> >>, <<DAPI>>, <<CD3>>, <<DAPI, CD3>>}
ChannelImages ==
    {[BaseImage EXCEPT !.channel_names = cn] : cn \in ChannelChoices}

\* Images that differ in the screens and reagents, and in the scan type.
ScreenChoices ==
    {<<FALSE, <<>> >>, <<TRUE, <<>> >>, <<TRUE, << <<>> >> >>,
     <<TRUE, << <<ReagentA>> >> >>, <<TRUE, << <<ReagentA, ReagentB>> >> >>,
     <<TRUE, << <<ReagentA>>, <<ReagentB>> >> >>}
ScreenImages ==
    {[BaseImage EXCEPT !.has_screens = sc[1], !.screens = sc[2],
                       !.structured_annotations = <<Annotation(<<"2">>, st, None, None)>>] :
        sc \in ScreenChoices, st \in {None, ScanS}}

\* The results of glob over the images of a set: every list of at most n of
\* them, each with the index of its file.
PathLists(images, n) ==
    UNION {{[k \in 1..m |-> [l[k] EXCEPT !.file = k]] : l \in [1..m -> images]} :
              m \in 0..n}

\* The state at the call of macsima(path, c_subset, transformations).
InitCall(lists, subsets, flags) ==
    /\ path_list \in lists
    /\ c_subset \in subsets
    /\ transformations \in flags
    /\ pc = "glob"
    /\ err = ""
    /\ imgs = <<>>
    /\ image_name = None
    /\ metadata = <<>>
    /\ c_coords = <<>>
    /\ roi = <<>>
    /\ to_coordinate_system = None
    /\ names = <<>>
    /\ subsetted = FALSE
    /\ pixels_to_microns = NoFloat
    /\ size_calls = <<>>
    /\ array = NoArray
    /\ se = NoElement
    /\ sdata = NoSData

Init ==
    \/ InitCall(PathLists(OrderImages, MaxImgs), OrderSubsets, {FALSE})
    \/ InitCall(PathLists(RoiImages, MaxFiles), {NoSubset}, BOOLEAN)
    \/ InitCall(PathLists(SizeImages, MaxFiles), {NoSubset, <<DAPI>>}, BOOLEAN)
    \/ InitCall(PathLists(PixelsImages, 1), {NoSubset}, {TRUE})
    \/ InitCall(PathLists(DimsImages, MaxFiles), {NoSubset}, {FALSE})
    \/ InitCall(PathLists(AnnotationImages, MaxFiles), {NoSubset}, {FALSE})
    \/ InitCall(PathLists(ChannelImages, MaxFiles), {NoSubset, <<DAPI>>}, {FALSE})
    \/ InitCall(PathLists(ScreenImages, MaxFiles), {NoSubset}, {FALSE})

Next ==
    \/ Glob
    \/ GetMetadata
    \/ CheckRoi
    \/ SortByCycle
    \/ Subset
    \/ CheckNonEmpty
    \/ CheckPhysicalSize
    \/ Stack
    \/ ParseImage
    \/ BuildSData

Spec == Init /\ [][Next]_vars

\* ------------------------------------------------------------------------
\* Properties

Returned == pc = "done"
Labels == sdata.image.c_coords
Planes == sdata.image.data.planes
AllowedChars == LowerChars \cup UpperChars \cup Digits \cup {Us}

\* The channel name of the k-th discovered file.
ChannelOf(k) == path_list[k].channel_names[1]

\* The integer cycle of the k-th discovered file, from its metadata.
CycleOf(k) == ParseInt(metadata[k][1])

\* "_" and the part, for a part that is neither None nor empty.
Segment(part) == IF part = None \/ part = <<>> THEN <<>> ELSE <<Us>> \o part

\* The parts that are present, each after a "_", without the first "_".
Underscored(segments) == IF segments = <<>> THEN <<>> ELSE Tail(segments)

\* The name of the k-th discovered file over cycle, scan type, channel name,
\* ROI id and reagent.
NameWithRoi(k) ==
    Underscored(Segment(metadata[k][1]) \o Segment(metadata[k][2])
                \o Segment(metadata[k][3]) \o Segment(metadata[k][4])
                \o Segment(metadata[k][5]))

\* The name of the k-th discovered file over cycle, scan type, channel name
\* and reagent.
NameWithoutRoi(k) ==
    Underscored(Segment(metadata[k][1]) \o Segment(metadata[k][2])
                \o Segment(metadata[k][3]) \o Segment(metadata[k][5]))

\* The discovered files that the allow-list keeps: all of them when the
\* allow-list is None or empty.
KeptFiles ==
    {k \in 1..Len(path_list) :
        c_subset \in {NoSubset, <<>>} \/ ChannelOf(k) \in Members(c_subset)}

\* C1: a returned stack has one channel per discovered image that the
\* allow-list keeps (every image without an allow-list), and its channels are
\* in ascending order of the integer cycle prefix of their derived names,
\* which is the cycle of the file of each plane, whatever the discovery order.
C1_CountAndCycleOrder ==
    Returned =>
        /\ Len(Labels) = Cardinality(KeptFiles)
        /\ Len(Planes) = Cardinality(KeptFiles)
        /\ sdata.image.data.shape[1] = Cardinality(KeptFiles)
        /\ {Planes[k] : k \in 1..Len(Planes)} = KeptFiles
        /\ \A k \in 1..Len(Labels) : CycleKey(Labels[k]) = CycleOf(Planes[k])
        /\ \A i, j \in 1..Len(Labels) :
              i < j => CycleKey(Labels[i]) <= CycleKey(Labels[j])

\* C1 witness: files discovered with cycles 3, 1, 2 and channels CD3, DAPI,
\* CD3, filtered to CD3: the stack holds the files of cycles 2 and 3.
C1_Witness ==
    /\ Returned
    /\ Len(path_list) = 3
    /\ <<CycleOf(1), CycleOf(2), CycleOf(3)>> = <<3, 1, 2>>
    /\ c_subset = <<CD3>>
    /\ Planes = <<3, 1>>

\* C2: a call over images of which at least one carries an ROI id returns
\* no result unless every discovered image carries that same ROI id.
C2_RoiUniformOrNoResult ==
    (Returned /\ \E k \in 1..Len(roi) : Truthy(roi[k]))
        => \A i, j \in 1..Len(roi) : roi[i] = roi[j]

\* C3: a call returns a result only when the normalized physical size of
\* every discovered image can be computed and is the same for all of them,
\* the images that the allow-list excludes included.
C3_SizeOfEveryDiscoveredImage ==
    Returned =>
        \A k \in 1..Len(path_list) :
            /\ _parse_physical_size(path_list[k].pixels).err = "ok"
            /\ _parse_physical_size(path_list[k].pixels).val = pixels_to_microns

\* C4: a call whose allow-list holds none of the channel names of the
\* discovered images, once it has applied the allow-list, ends with the
\* post-filter emptiness error.
C4_EmptinessError ==
    (/\ pc \in {"done", "error"}
     /\ subsetted
     /\ \A k \in 1..Len(metadata) : metadata[k][3] \notin Members(c_subset))
        => (pc = "error" /\ err = "EmptyAfterSubsetting")

\* C5: every call of _parse_physical_size fails with the unsupported-geometry
\* error when the units or the magnitudes of x and y differ; otherwise with
\* the unrecognized-unit error when the unit is neither nanometer nor
\* micrometer; otherwise it returns x / 1000 for nanometers and x for
\* micrometers: 500 nm gives 1/2, and 1000 nm and 1 micrometer both give 1.
C5_ParsePhysicalSize ==
    \A c \in 1..Len(size_calls) :
        LET px == size_calls[c].pixels
            res == size_calls[c].result
        IN  IF \/ px.physical_size_x_unit # px.physical_size_y_unit
               \/ px.physical_size_x # px.physical_size_y
            THEN res.err = "UnsupportedGeometry"
            ELSE IF px.physical_size_x_unit \notin {NANOMETER, MICROMETER}
            THEN res.err = "UnrecognizedUnit"
            ELSE /\ res.err = "ok"
                 /\ px.physical_size_x_unit = NANOMETER
                       => res.val[1] * 1000 = px.physical_size_x * res.val[2]
                 /\ px.physical_size_x_unit = MICROMETER
                       => res.val[1] = px.physical_size_x * res.val[2]
                 /\ (px.physical_size_x_unit = NANOMETER /\ px.physical_size_x = 500)
                       => res.val = <<1, 2>>
                 /\ (px.physical_size_x_unit = NANOMETER /\ px.physical_size_x = 1000)
                       => res.val = <<1, 1>>
                 /\ (px.physical_size_x_unit = MICROMETER /\ px.physical_size_x = 1)
                       => res.val = <<1, 1>>

\* C5 witness: a returned call over one image of 500 nm pixels, whose scale
\* is 1/2 micrometer.
C5_Witness ==
    /\ Returned
    /\ Len(size_calls) = 2
    /\ size_calls[1].pixels = Pixels(500, 500, NANOMETER, NANOMETER)
    /\ size_calls[1].result.val = <<1, 2>>
    /\ sdata.image.transformation.scale = << <<1, 2>>, <<1, 2>> >>

\* The string s starts with the string p.
StartsWith(s, p) == Len(s) >= Len(p) /\ SubSeq(s, 1, Len(p)) = p

\* The composite name of the call: the description of the first discovered
\* image, and "_" and the ROI id of that image when it has one.
CompositeName ==
    path_list[1].description
        \o (IF roi[1] # None THEN <<Us>> \o roi[1] ELSE <<>>)

\* C6: the name of the returned image is the composite name with every
\* character outside [A-Za-z0-9_] replaced one-for-one by "_" and every
\* other character kept in place ("Exp #1 (ROI-2)" becomes "Exp__1__ROI_2_");
\* the channel labels and the coordinate-system name are not sanitized.
C6_SanitizedCompositeName ==
    Returned =>
        /\ Len(sdata.image_name) = Len(CompositeName)
        /\ \A k \in 1..Len(CompositeName) :
              sdata.image_name[k] =
                  (IF CompositeName[k] \in AllowedChars THEN CompositeName[k] ELSE Us)
        /\ StartsWith(CompositeName, DescRoi)
              => StartsWith(sdata.image_name,
                            <<"E", "x", "p", "_", "_", "1", "_", "_",
                              "R", "O", "I", "_", "2", "_">>)
        /\ sdata.image.coordinate_system =
              (IF roi[1] # None THEN Global \o <<Us>> \o roi[1] ELSE Global)
        /\ \A k \in 1..Len(Labels) : Labels[k] = NameWithRoi(Planes[k])

\* C6 witness: a returned call whose description is "Exp #1 (ROI-2)" and
\* whose ROI id is "R-2": the image name is sanitized, the coordinate-system
\* name and the labels keep the "-".
C6_Witness ==
    /\ Returned
    /\ path_list[1].description = DescRoi
    /\ roi[1] = RoiR2
    /\ sdata.image_name # CompositeName
    /\ sdata.image.coordinate_system = Global \o <<Us>> \o RoiR2
    /\ \E k \in 1..Len(Labels[1]) : Labels[1][k] = "-"

\* C7 as stated: the channel labels of a returned image are the channel
\* names of the retained images, in the sorted and filtered order.
C7_LabelsAreChannelNames ==
    Returned =>
        Labels = [k \in 1..Len(Planes) |-> ChannelOf(Planes[k])]

\* C7 as amended: the channel labels of a returned image are the derived
\* names (cycle, scan type, channel name, ROI id and reagent, joined by "_")
\* of the retained images, in the sorted and filtered order.
C7_LabelsAreDerivedNames ==
    Returned =>
        /\ Labels = [k \in 1..Len(Planes) |-> NameWithRoi(Planes[k])]
        /\ Planes = [k \in 1..Len(imgs) |-> imgs[k].file]

\* C7 witness: a returned stack of two channels, filtered by an allow-list,
\* whose labels are not the channel names.
C7_Witness ==
    /\ Returned
    /\ subsetted
    /\ Len(Labels) = 2
    /\ Len(path_list) = 3
    /\ Labels[1] # ChannelOf(Planes[1])

\* C8: a call returns a result only when the dimension order of every image
\* that contributes a plane is TCZYX.
C8_DimsOfEveryImage ==
    Returned => \A k \in 1..Len(imgs) : imgs[k].order = "TCZYX"

\* C9 as stated: the derived name of every image is the join of the
\* non-empty parts among cycle, scan type, channel name and reagent; the ROI
\* id is not a part of it.
C9_NameWithoutRoi ==
    /\ Len(names) \in {0, Len(imgs)}
    /\ \A k \in 1..Len(names) : names[k] = NameWithoutRoi(imgs[k].file)

\* C9 as amended: the derived name of every image is the join of the
\* non-empty parts among cycle, scan type, channel name, ROI id and reagent,
\* in that order, so that an image with an ROI id and one without have
\* different derived names.
C9_NameWithRoi ==
    /\ Len(names) \in {0, Len(imgs)}
    /\ \A k \in 1..Len(names) : names[k] = NameWithRoi(imgs[k].file)
    /\ \A i, j \in 1..Len(names) :
          (roi[imgs[i].file] = None /\ Truthy(roi[imgs[j].file]))
              => names[i] # names[j]

\* C9 witness: two images that differ only in the presence of the ROI id,
\* with their derived names.
C9_Witness ==
    /\ Len(names) = 2
    /\ roi = <<None, RoiR1>>
    /\ path_list[1].description = path_list[2].description
    /\ names[1] # names[2]
    /\ names[1] = NameWithoutRoi(1)

\* C10: a call with an empty allow-list behaves like a call without one: the
\* filter does not run, neither error of the filter is raised, and a
\* returned stack has one channel per discovered image; the filter runs, and
\* its errors are raised, only with an allow-list of at least one element.
C10_EmptyAllowList ==
    /\ c_subset = <<>> =>
          /\ ~subsetted
          /\ err \notin {"UnpackNotEnoughValues", "EmptyAfterSubsetting"}
          /\ pc \in {"nonempty", "physical_size", "stack", "parse", "sdata", "done"}
                => Len(imgs) = Len(path_list)
          /\ Returned => /\ Len(Labels) = Len(path_list)
                         /\ {Planes[k] : k \in 1..Len(Planes)} = 1..Len(path_list)
    /\ (subsetted \/ err \in {"UnpackNotEnoughValues", "EmptyAfterSubsetting"})
          => (c_subset # NoSubset /\ Len(c_subset) >= 1)

\* C10 witness: a returned call with an empty allow-list over three files.
C10_Witness ==
    /\ Returned
    /\ c_subset = <<>>
    /\ Len(path_list) = 3
    /\ Len(Labels) = 3

=============================================================================
